---- MODULE Spec2Model ----
(***************************************************************************)
(* Model of the CORS-backend tutorial server (app.js) together with the    *)
(* parts of the cors@2.8.5 middleware that the tutorial lists:             *)
(* configureOrigin, isOriginAllowed, the origin callback of the            *)
(* middleware, applyHeaders, and the /invitation-only route that re-reads  *)
(* the response header before doing any work.                              *)
(*                                                                         *)
(* JavaScript values are records tagged with their type.  Strings are      *)
(* sequences of one-character strings so that letter case and regular      *)
(* expression matching are computed character by character.                *)
(***************************************************************************)
EXTENDS Integers, Sequences, FiniteSets, TLC

(***************************************************************************)
(* Bounds                                                                  *)
(***************************************************************************)
\* Number of requests the server handles, concurrently or one after another.
NumReq == 2

\* Longest origin array handed to isOriginAllowed on its own.
MaxLen == 3

Requests == 1..NumReq

(***************************************************************************)
(* JavaScript values                                                       *)
(***************************************************************************)
Undefined == [type |-> "undefined"]

Null == [type |-> "null"]

Bool(b) == [type |-> "boolean", flag |-> b]

Str(chars) == [type |-> "string", val |-> chars]

RegExp(src, anchor, i) ==
  [type |-> "regexp", source |-> src, anchored |-> anchor, ignoreCase |-> i]

Array(elems) == [type |-> "array", items |-> elems]

Function == [type |-> "function"]

Error == [type |-> "error"]

\* Truthiness as used by `!x`, `!!x` and `if (x)`.
Truthy(v) ==
  CASE v.type = "undefined" -> FALSE
    [] v.type = "null"      -> FALSE
    [] v.type = "boolean"   -> v.flag
    [] v.type = "string"    -> v.val # <<>>
    [] OTHER                -> TRUE

\* isString() of the cors module.
isString(v) == v.type = "string"

(***************************************************************************)
(* Characters and strings                                                  *)
(***************************************************************************)
UpperCaseLetters ==
  <<"A","B","C","D","E","F","G","H","I","J","K","L","M",
    "N","O","P","Q","R","S","T","U","V","W","X","Y","Z">>

LowerCaseLetters ==
  <<"a","b","c","d","e","f","g","h","i","j","k","l","m",
    "n","o","p","q","r","s","t","u","v","w","x","y","z">>

\* No case folding: the i flag ignored.
CanonicalizeNone(c) == c

\* Case folding of one character, as done by a RegExp with the i flag.
Canonicalize(c) ==
  IF \E k \in 1..26 : UpperCaseLetters[k] = c
  THEN LowerCaseLetters[CHOOSE k \in 1..26 : UpperCaseLetters[k] = c]
  ELSE c

\* A comparison that folds letter case, as one on lower-cased strings would.
StrictEqualsIgnoreCase(a, b) ==
  IF a.type = "string" /\ b.type = "string"
  THEN /\ Len(a.val) = Len(b.val)
       /\ \A k \in 1..Len(a.val) : Canonicalize(a.val[k]) = Canonicalize(b.val[k])
  ELSE a = b

\* The === operator on the values above.
StrictEquals(a, b) == a = b

\* String(v): the text a RegExp sees when it is handed a non-string.
StringOf(v) ==
  CASE v.type = "string"    -> v.val
    [] v.type = "undefined" -> <<"u","n","d","e","f","i","n","e","d">>
    [] v.type = "null"      -> <<"n","u","l","l">>
    [] v.type = "boolean"   ->
         IF v.flag THEN <<"t","r","u","e">> ELSE <<"f","a","l","s","e">>
    [] OTHER                -> <<"[","o","b","j","e","c","t","]">>

Http == <<"h","t","t","p",":","/","/">>

HTTP == <<"H","T","T","P",":","/","/">>

Port3000 == <<":","3","0","0","0">>

Star == Str(<<"*">>)

OriginLocalhost == Str(Http \o <<"l","o","c","a","l","h","o","s","t">> \o Port3000)

OriginLOCALHOST == Str(Http \o <<"L","O","C","A","L","H","O","S","T">> \o Port3000)

OriginLoopback == Str(Http \o <<"1","2","7",".","0",".","0",".","1">> \o Port3000)

OriginLOOPBACK == Str(HTTP \o <<"1","2","7",".","0",".","0",".","1">> \o Port3000)

OriginLan ==
  Str(Http \o <<"1","9","2",".","1","6","8",".","0",".","1","1">> \o Port3000)

\* req.headers.origin: "either undefined or a string".
Origins ==
  {Undefined, OriginLocalhost, OriginLOCALHOST, OriginLoopback,
   OriginLOOPBACK, OriginLan}

(***************************************************************************)
(* Regular expressions: literal patterns with an optional ^ anchor and an  *)
(* optional i flag, which is what app.js configures.                       *)
(***************************************************************************)
\* A comparison that folds letter case whatever the flag.
SameCharFolded(re, a, b) == Canonicalize(a) = Canonicalize(b)

\* One character of the pattern against one of the text.
SameChar(re, a, b) ==
  IF re.ignoreCase THEN Canonicalize(a) = Canonicalize(b) ELSE a = b

MatchAt(re, s, p) ==
  /\ p + Len(re.source) - 1 <= Len(s)
  /\ \A k \in 1..Len(re.source) : SameChar(re, re.source[k], s[p + k - 1])

\* RegExp.prototype.test(v): v is converted to a string first.
RegExpTest(re, v) ==
  LET s == StringOf(v)
  IN  IF re.anchored
      THEN MatchAt(re, s, 1)
      ELSE \E p \in 1..(Len(s) + 1) : MatchAt(re, s, p)

(***************************************************************************)
(* cors/lib/index.js                                                       *)
(***************************************************************************)
\* A loop that returns the verdict of its first iteration.
RECURSIVE isOriginAllowedFirstOnly(_, _)
isOriginAllowedFirstOnly(origin, allowedOrigin) ==
  IF allowedOrigin.type = "array"
  THEN IF allowedOrigin.items = <<>>
       THEN FALSE
       ELSE isOriginAllowedFirstOnly(origin, Head(allowedOrigin.items))
  ELSE IF isString(allowedOrigin)
  THEN StrictEquals(origin, allowedOrigin)
  ELSE IF allowedOrigin.type = "regexp"
  THEN RegExpTest(allowedOrigin, origin)
  ELSE Truthy(allowedOrigin)

\* A last branch that also asks for an origin.
RECURSIVE isOriginAllowedPresentOnly(_, _)
isOriginAllowedPresentOnly(origin, allowedOrigin) ==
  IF allowedOrigin.type = "array"
  THEN IF allowedOrigin.items = <<>>
       THEN FALSE
       ELSE IF isOriginAllowedPresentOnly(origin, Head(allowedOrigin.items))
            THEN TRUE
            ELSE isOriginAllowedPresentOnly(origin, Array(Tail(allowedOrigin.items)))
  ELSE IF isString(allowedOrigin)
  THEN StrictEquals(origin, allowedOrigin)
  ELSE IF allowedOrigin.type = "regexp"
  THEN RegExpTest(allowedOrigin, origin)
  ELSE Truthy(allowedOrigin) /\ origin.type # "undefined"

RECURSIVE isOriginAllowed(_, _)
isOriginAllowed(origin, allowedOrigin) ==
  IF allowedOrigin.type = "array"
  THEN IF allowedOrigin.items = <<>>
       THEN FALSE
       ELSE IF isOriginAllowed(origin, Head(allowedOrigin.items))
            THEN TRUE
            ELSE isOriginAllowed(origin, Array(Tail(allowedOrigin.items)))
  ELSE IF isString(allowedOrigin)
  THEN StrictEquals(origin, allowedOrigin)
  ELSE IF allowedOrigin.type = "regexp"
  THEN RegExpTest(allowedOrigin, origin)
  ELSE Truthy(allowedOrigin)

VaryOrigin == Str(<<"O","r","i","g","i","n">>)

Header(k, v) == [key |-> k, value |-> v]

\* The refusal pushed as the text "false".
ReflectValueText(isAllowed, requestOrigin) ==
  IF isAllowed THEN requestOrigin ELSE Str(<<"f","a","l","s","e">>)

\* The origin echoed as the text the matcher saw.
ReflectValueAsText(isAllowed, requestOrigin) ==
  IF isAllowed THEN Str(StringOf(requestOrigin)) ELSE Bool(FALSE)

\* The value pushed for a policy that is neither falsy, "*" nor a string.
ReflectValue(isAllowed, requestOrigin) ==
  IF isAllowed THEN requestOrigin ELSE Bool(FALSE)

\* configureOrigin without the test for "*": the wildcard is a fixed string.
configureOriginNoStar(optionsOrigin, requestOrigin) ==
  IF ~Truthy(optionsOrigin)
  THEN << Header("Access-Control-Allow-Origin", Star) >>
  ELSE IF isString(optionsOrigin)
  THEN << Header("Access-Control-Allow-Origin", optionsOrigin),
          Header("Vary", VaryOrigin) >>
  ELSE << Header("Access-Control-Allow-Origin",
                 ReflectValue(isOriginAllowed(requestOrigin, optionsOrigin),
                              requestOrigin)),
          Header("Vary", VaryOrigin) >>

\* configureOrigin without the branch for a fixed string: the string is
\* matched against the request origin like any other policy.
configureOriginFixedChecked(optionsOrigin, requestOrigin) ==
  IF ~Truthy(optionsOrigin) \/ StrictEquals(optionsOrigin, Star)
  THEN << Header("Access-Control-Allow-Origin", Star) >>
  ELSE << Header("Access-Control-Allow-Origin",
                 ReflectValue(isOriginAllowed(requestOrigin, optionsOrigin),
                              requestOrigin)),
          Header("Vary", VaryOrigin) >>

\* configureOrigin without the Vary header of the fixed origin.
configureOriginFixedNoVary(optionsOrigin, requestOrigin) ==
  IF ~Truthy(optionsOrigin) \/ StrictEquals(optionsOrigin, Star)
  THEN << Header("Access-Control-Allow-Origin", Star) >>
  ELSE IF isString(optionsOrigin)
  THEN << Header("Access-Control-Allow-Origin", optionsOrigin) >>
  ELSE << Header("Access-Control-Allow-Origin",
                 ReflectValue(isOriginAllowed(requestOrigin, optionsOrigin),
                              requestOrigin)),
          Header("Vary", VaryOrigin) >>

\* configureOrigin echoing the option instead of the request origin.
configureOriginEchoesOption(optionsOrigin, requestOrigin) ==
  IF ~Truthy(optionsOrigin) \/ StrictEquals(optionsOrigin, Star)
  THEN << Header("Access-Control-Allow-Origin", Star) >>
  ELSE IF isString(optionsOrigin)
  THEN << Header("Access-Control-Allow-Origin", optionsOrigin),
          Header("Vary", VaryOrigin) >>
  ELSE << Header("Access-Control-Allow-Origin",
                 ReflectValue(isOriginAllowed(requestOrigin, optionsOrigin),
                              optionsOrigin)),
          Header("Vary", VaryOrigin) >>

\* configureOrigin(options, req); optionsOrigin is options.origin and
\* requestOrigin is req.headers.origin.
configureOrigin(optionsOrigin, requestOrigin) ==
  IF ~Truthy(optionsOrigin) \/ StrictEquals(optionsOrigin, Star)
  THEN << Header("Access-Control-Allow-Origin", Star) >>
  ELSE IF isString(optionsOrigin)
  THEN << Header("Access-Control-Allow-Origin", optionsOrigin),
          Header("Vary", VaryOrigin) >>
  ELSE << Header("Access-Control-Allow-Origin",
                 ReflectValue(isOriginAllowed(requestOrigin, optionsOrigin),
                              requestOrigin)),
          Header("Vary", VaryOrigin) >>

\* Node stores and looks up header names in lower case.
HeaderName(key) ==
  CASE key = "Access-Control-Allow-Origin" -> "access-control-allow-origin"
    [] key = "Vary"                        -> "vary"
    [] OTHER                               -> key

HeaderNames == {"access-control-allow-origin", "vary"}

NoHeaders == [n \in HeaderNames |-> Undefined]

\* applyHeaders writes a header only when its value is truthy.
HeaderIsWritten(header) == Truthy(header.value)

\* applyHeaders(headers, res): hdrs is the header map of the response.
RECURSIVE applyHeaders(_, _)
applyHeaders(headers, hdrs) ==
  IF headers = <<>>
  THEN hdrs
  ELSE LET header == Head(headers)
           written == IF HeaderIsWritten(header)
                      THEN [hdrs EXCEPT ![HeaderName(header.key)] = header.value]
                      ELSE hdrs
       IN  applyHeaders(Tail(headers), written)

\* cors(options, req, res, next) for a request that is not a preflight.
cors(optionsOrigin, requestOrigin, hdrs) ==
  applyHeaders(configureOrigin(optionsOrigin, requestOrigin), hdrs)

\* var defaults = { origin: '*', ... }
defaults == [origin |-> Star]

\* A copy of the options alone: a missing origin key stays undefined.
assignWithoutDefaults(dflt, opts) ==
  [origin |-> IF opts.configured THEN opts.origin ELSE Undefined]

\* assign({}, defaults, options): an options object without an origin key
\* (configured = FALSE) keeps the default.
assign(dflt, opts) ==
  [origin |-> IF opts.configured THEN opts.origin ELSE dflt.origin]

(***************************************************************************)
(* Configurations of app.js                                                *)
(***************************************************************************)
\* /^HTTP:\/\/LOCALHOST:/i
LocalhostPattern ==
  RegExp(<<"H","T","T","P",":","/","/","L","O","C","A","L","H","O","S","T",":">>,
         TRUE, TRUE)

\* The same pattern without the i flag.
LocalhostPatternCaseSensitive ==
  RegExp(<<"H","T","T","P",":","/","/","L","O","C","A","L","H","O","S","T",":">>,
         TRUE, FALSE)

\* new RegExp(""): a pattern every text matches, the text "undefined" that
\* test() makes of an absent origin included.
EmptyPattern == RegExp(<<>>, FALSE, FALSE)

\* corsOptions.origin of app.js.
corsOptionsOrigin == Array(<<LocalhostPattern, OriginLoopback>>)

\* Values an application can give to the origin option, a function excluded.
OriginOptionValues ==
  { Star, Bool(FALSE), Bool(TRUE), OriginLoopback, LocalhostPattern,
    corsOptionsOrigin, Array(<<OriginLoopback, LocalhostPattern>>),
    Array(<<>>), Array(<<LocalhostPatternCaseSensitive>>), EmptyPattern }

\* Values the origin function of Listings 10 and 22 can hand to its callback.
CallbackValues == OriginOptionValues \cup {Undefined, Str(<<>>)}

OptionsObjects ==
  {[configured |-> FALSE]}
    \cup {[configured |-> TRUE, origin |-> v] : v \in OriginOptionValues}
    \cup {[configured |-> TRUE, origin |-> Function]}

Routes == {"/", "/headers", "/invitation-only"}

RealMessage == "TODO: DATABASE STUFF TO GENERATE A REAL MESSAGE"

ConnectedMessage == "<pre>Connected to ...</pre>"

HeadersMessage == "<pre>req.headers</pre>"

(***************************************************************************)
(* State                                                                   *)
(***************************************************************************)
VARIABLES
  options,      \* the corsOptions object handed to cors() in app.js
  pc,           \* per request: "idle", "cors", "callback", "route", "sent",
                \* or "error" once next was given an error
  req,          \* per request: its origin header and its route
  corsOptions,  \* per request: the copy of the options made by the middleware
  nextArg,      \* per request: the argument the middleware gave to next()
  res,          \* per request: response headers, status code, bodies sent
  answer,       \* per request: what the origin function told its callback
  gate,         \* per request: origin, allowed and ok of /invitation-only
  call          \* one call of isOriginAllowed: its arguments and its result

vars == <<options, pc, req, corsOptions, answer, nextArg, res, gate, call>>

NoRequest == [origin |-> Undefined, route |-> "/"]

NewResponse == [headers |-> NoHeaders, statusCode |-> 200, sent |-> <<>>]

NoGate == [ran |-> FALSE]

NoAnswer == [given |-> FALSE]

NoCall == [returned |-> FALSE]

ServerInit ==
  /\ pc = [r \in Requests |-> "idle"]
  /\ req = [r \in Requests |-> NoRequest]
  /\ corsOptions = [r \in Requests |-> defaults]
  /\ answer = [r \in Requests |-> NoAnswer]
  /\ nextArg = [r \in Requests |-> Undefined]
  /\ res = [r \in Requests |-> NewResponse]
  /\ gate = [r \in Requests |-> NoGate]

Init ==
  /\ options \in OptionsObjects
  /\ ServerInit
  /\ call = NoCall

\* res.get(name)
ResGet(response, name) == response.headers[name]

\* res.send(body): the status code is left as it is.
ResSend(response, body) == [response EXCEPT !.sent = Append(@, body)]

(***************************************************************************)
(* The middleware                                                          *)
(***************************************************************************)
\* A GET request arrives with or without an Origin header.
Receive(r) ==
  /\ pc[r] = "idle"
  /\ \E o \in Origins, p \in Routes :
       req' = [req EXCEPT ![r] = [origin |-> o, route |-> p]]
  /\ pc' = [pc EXCEPT ![r] = "cors"]
  /\ UNCHANGED <<options, corsOptions, answer, nextArg, res, gate, call>>

\* The test without `!origin`.
OriginRejectedErrOnly(err2, origin) == Truthy(err2)

\* The test without `err2`.
OriginRejectedOriginOnly(err2, origin) == ~Truthy(origin)

\* The test `err2 || !origin` of the origin callback.
OriginRejected(err2, origin) == Truthy(err2) \/ ~Truthy(origin)

\* A next that goes to the route whatever it is given.
nextIgnoresError(arg) == "route"

\* next(arg): where the request goes when the middleware hands it on. Without
\* an error it goes to its route; with an error it is handed, together with
\* the error, to the error handling of the framework, and no code of the
\* application handles it from there.
next(arg) == IF Truthy(arg) THEN "error" ELSE "route"

\* The callback ending the response itself when the origin is rejected.
OriginResultWithhold(r, copy, err2, origin) ==
  /\ options' = options
  /\ IF OriginRejected(err2, origin)
     THEN /\ corsOptions' = [corsOptions EXCEPT ![r] = copy]
          /\ nextArg' = [nextArg EXCEPT ![r] = err2]
          /\ res' = [res EXCEPT ![r] = ResSend(@, "")]
          /\ pc' = [pc EXCEPT ![r] = "sent"]
     ELSE /\ corsOptions' = [corsOptions EXCEPT ![r] = [copy EXCEPT !.origin = origin]]
          /\ nextArg' = [nextArg EXCEPT ![r] = Undefined]
          /\ res' = [res EXCEPT ![r].headers = cors(origin, req[r].origin, @)]
          /\ pc' = [pc EXCEPT ![r] = next(Undefined)]

\* The callback writing the headers into the response of every request.
OriginResultAllResponses(r, copy, err2, origin) ==
  /\ options' = options
  /\ IF OriginRejected(err2, origin)
     THEN /\ corsOptions' = [corsOptions EXCEPT ![r] = copy]
          /\ nextArg' = [nextArg EXCEPT ![r] = err2]
          /\ res' = res
          /\ pc' = [pc EXCEPT ![r] = next(err2)]
     ELSE /\ corsOptions' = [corsOptions EXCEPT ![r] = [copy EXCEPT !.origin = origin]]
          /\ nextArg' = [nextArg EXCEPT ![r] = Undefined]
          /\ res' = [q \in Requests |->
                       [res[q] EXCEPT !.headers = cors(origin, req[r].origin, @)]]
          /\ pc' = [pc EXCEPT ![r] = next(Undefined)]

\* The callback writing the answer into the options object of app.js.
OriginResultShared(r, copy, err2, origin) ==
  IF OriginRejected(err2, origin)
  THEN /\ options' = options
       /\ corsOptions' = [corsOptions EXCEPT ![r] = copy]
       /\ nextArg' = [nextArg EXCEPT ![r] = err2]
       /\ res' = res
       /\ pc' = [pc EXCEPT ![r] = next(err2)]
  ELSE /\ options' = [configured |-> TRUE, origin |-> origin]
       /\ corsOptions' = [corsOptions EXCEPT ![r] = [copy EXCEPT !.origin = origin]]
       /\ nextArg' = [nextArg EXCEPT ![r] = Undefined]
       /\ res' = [res EXCEPT ![r].headers = cors(origin, req[r].origin, @)]
       /\ pc' = [pc EXCEPT ![r] = next(Undefined)]

\* The callback without corsOptions.origin = origin: cors() is called with the
\* origin function still in place.
OriginResultUnresolved(r, copy, err2, origin) ==
  /\ options' = options
  /\ IF OriginRejected(err2, origin)
     THEN /\ corsOptions' = [corsOptions EXCEPT ![r] = copy]
          /\ nextArg' = [nextArg EXCEPT ![r] = err2]
          /\ res' = res
          /\ pc' = [pc EXCEPT ![r] = next(err2)]
     ELSE /\ corsOptions' = [corsOptions EXCEPT ![r] = [copy EXCEPT !.origin = origin]]
          /\ nextArg' = [nextArg EXCEPT ![r] = Undefined]
          /\ res' = [res EXCEPT ![r].headers = cors(copy.origin, req[r].origin, @)]
          /\ pc' = [pc EXCEPT ![r] = next(Undefined)]

\* function (err2, origin) { if (err2 || !origin) next(err2)
\*   else { corsOptions.origin = origin; cors(corsOptions, req, res, next) } }
\* corsOptions is the copy made for this request; the options object of
\* app.js is not written.
OriginResult(r, copy, err2, origin) ==
  /\ options' = options
  /\ IF OriginRejected(err2, origin)
     THEN /\ corsOptions' = [corsOptions EXCEPT ![r] = copy]
          /\ nextArg' = [nextArg EXCEPT ![r] = err2]
          /\ res' = res
          /\ pc' = [pc EXCEPT ![r] = next(err2)]
     ELSE /\ corsOptions' = [corsOptions EXCEPT ![r] = [copy EXCEPT !.origin = origin]]
          /\ nextArg' = [nextArg EXCEPT ![r] = Undefined]
          /\ res' = [res EXCEPT ![r].headers = cors(origin, req[r].origin, @)]
          /\ pc' = [pc EXCEPT ![r] = next(Undefined)]

\* var corsOptions = assign({}, defaults, options), made anew for the request
\* that enters the middleware.
newCorsOptions == assign(defaults, options)

\* A middleware without the test for a function: the configured function is
\* handed to the origin callback like any other value.
CorsMiddlewareFunctionAsValue(r) ==
  /\ pc[r] = "cors"
  /\ OriginResult(r, newCorsOptions, Null, newCorsOptions.origin)
  /\ UNCHANGED <<req, answer, gate, call>>

\* A middleware that calls the origin function and goes on to the route
\* without waiting for its answer.
CorsMiddlewareNoWait(r) ==
  /\ pc[r] = "cors"
  /\ LET copy == newCorsOptions
     IN  IF copy.origin.type = "function"
         THEN /\ pc' = [pc EXCEPT ![r] = "route"]
              /\ corsOptions' = [corsOptions EXCEPT ![r] = copy]
              /\ UNCHANGED <<options, nextArg, res>>
         ELSE OriginResult(r, copy, Null, copy.origin)
  /\ UNCHANGED <<req, answer, gate, call>>

\* corsMiddleware(req, res, next): a configured value is handed to the
\* origin callback at once, a configured function is called and answers later.
CorsMiddleware(r) ==
  /\ pc[r] = "cors"
  /\ LET copy == newCorsOptions
     IN  IF copy.origin.type = "function"
         THEN /\ pc' = [pc EXCEPT ![r] = "callback"]
              /\ corsOptions' = [corsOptions EXCEPT ![r] = copy]
              /\ UNCHANGED <<options, nextArg, res>>
         ELSE OriginResult(r, copy, Null, copy.origin)
  /\ UNCHANGED <<req, answer, gate, call>>

\* What the configured function can tell its callback: a value without an
\* error, or an error with or without a value.
CallbackAnswers ==
  {[given |-> TRUE, err |-> Null, origin |-> v] : v \in CallbackValues}
    \cup {[given |-> TRUE, err |-> Error, origin |-> v] : v \in {Undefined, Bool(TRUE)}}

\* The configured function calls callback(err, origin).
OriginCallback(r) ==
  /\ pc[r] = "callback"
  /\ \E a \in CallbackAnswers :
       /\ answer' = [answer EXCEPT ![r] = a]
       /\ OriginResult(r, corsOptions[r], a.err, a.origin)
  /\ UNCHANGED <<req, gate, call>>

(***************************************************************************)
(* The routes of app.js                                                    *)
(***************************************************************************)
Root(r) ==
  /\ pc[r] = "route"
  /\ req[r].route = "/"
  /\ res' = [res EXCEPT ![r] = ResSend(@, ConnectedMessage)]
  /\ pc' = [pc EXCEPT ![r] = "sent"]
  /\ UNCHANGED <<options, req, corsOptions, answer, nextArg, gate, call>>

Headers(r) ==
  /\ pc[r] = "route"
  /\ req[r].route = "/headers"
  /\ res' = [res EXCEPT ![r] = ResSend(@, HeadersMessage)]
  /\ pc' = [pc EXCEPT ![r] = "sent"]
  /\ UNCHANGED <<options, req, corsOptions, answer, nextArg, gate, call>>

\* The gate without the wildcard.
okNoStar(allowed, origin) == StrictEquals(allowed, origin)

\* The gate asking for an origin that is a string.
okTextOnly(allowed, origin) ==
  /\ origin.type = "string"
  /\ StrictEquals(allowed, origin) \/ StrictEquals(allowed, Star)

\* The gate asking only whether an allow-origin header is there.
okWhenAllowedSet(allowed, origin) == Truthy(allowed)

\* const ok = (allowed === origin || allowed === "*")
ok(allowed, origin) == StrictEquals(allowed, origin) \/ StrictEquals(allowed, Star)

\* The message built whatever the gate says.
messageAlways(isOk) == RealMessage

\* const message = ok ? "TODO: ..." : ""
message(isOk) == IF isOk THEN RealMessage ELSE ""

\* A handler that sends only when the gate lets the request through.
InvitationOnlySendsWhenOk(r) ==
  /\ pc[r] = "route"
  /\ req[r].route = "/invitation-only"
  /\ LET origin  == req[r].origin
         allowed == ResGet(res[r], "access-control-allow-origin")
     IN  /\ ok(allowed, origin)
         /\ gate' = [gate EXCEPT ![r] =
                       [ran |-> TRUE, origin |-> origin, allowed |-> allowed,
                        ok |-> ok(allowed, origin)]]
         /\ res' = [res EXCEPT ![r] = ResSend(@, message(ok(allowed, origin)))]
  /\ pc' = [pc EXCEPT ![r] = "sent"]
  /\ UNCHANGED <<options, req, corsOptions, answer, nextArg, call>>

\* A handler that sets the allow-origin header to the origin it has read.
InvitationOnlyWritesHeader(r) ==
  /\ pc[r] = "route"
  /\ req[r].route = "/invitation-only"
  /\ LET origin  == req[r].origin
         allowed == ResGet(res[r], "access-control-allow-origin")
     IN  /\ gate' = [gate EXCEPT ![r] =
                       [ran |-> TRUE, origin |-> origin, allowed |-> allowed,
                        ok |-> ok(allowed, origin)]]
         /\ res' = [res EXCEPT ![r] =
                      ResSend([@ EXCEPT !.headers["access-control-allow-origin"] = origin],
                              message(ok(allowed, origin)))]
  /\ pc' = [pc EXCEPT ![r] = "sent"]
  /\ UNCHANGED <<options, req, corsOptions, answer, nextArg, call>>

\* app.get('/invitation-only', ...)
InvitationOnly(r) ==
  /\ pc[r] = "route"
  /\ req[r].route = "/invitation-only"
  /\ LET origin  == req[r].origin
         allowed == ResGet(res[r], "access-control-allow-origin")
     IN  /\ gate' = [gate EXCEPT ![r] =
                       [ran |-> TRUE, origin |-> origin, allowed |-> allowed,
                        ok |-> ok(allowed, origin)]]
         /\ res' = [res EXCEPT ![r] = ResSend(@, message(ok(allowed, origin)))]
  /\ pc' = [pc EXCEPT ![r] = "sent"]
  /\ UNCHANGED <<options, req, corsOptions, answer, nextArg, call>>

Next ==
  \E r \in Requests :
    \/ Receive(r)
    \/ CorsMiddleware(r)
    \/ OriginCallback(r)
    \/ Root(r)
    \/ Headers(r)
    \/ InvitationOnly(r)

Spec == Init /\ [][Next]_vars

(***************************************************************************)
(* The server as app.js configures it: the origin option is the array of   *)
(* app.js, so no origin function is called. Node goes on with every        *)
(* request it has received.                                                *)
(***************************************************************************)
AppInit ==
  /\ options = [configured |-> TRUE, origin |-> corsOptionsOrigin]
  /\ ServerInit
  /\ call = NoCall

\* The steps the server takes for a request it has received.
Handle(r) ==
  \/ CorsMiddleware(r)
  \/ Root(r)
  \/ Headers(r)
  \/ InvitationOnly(r)

AppNext == \E r \in Requests : Receive(r) \/ Handle(r)

Fairness == \A r \in Requests : WF_vars(Handle(r))

LiveSpec == AppInit /\ [][AppNext]_vars /\ Fairness

(***************************************************************************)
(* isOriginAllowed on its own: the arguments are drawn from the origins    *)
(* above and from the strings, patterns, booleans and arrays an            *)
(* application can configure.                                              *)
(***************************************************************************)
OriginLiterals == {OriginLoopback, OriginLocalhost}

OriginPatterns == {LocalhostPattern, LocalhostPatternCaseSensitive}

Matchers == OriginLiterals \cup OriginPatterns

MatcherArrays ==
  {Array(items) : items \in UNION {[1..n -> Matchers] : n \in 0..MaxLen}}

AllowedOrigins == Matchers \cup {Bool(TRUE), Bool(FALSE)} \cup MatcherArrays

MatchInit ==
  /\ options = [configured |-> FALSE]
  /\ ServerInit
  /\ \E o \in Origins, a \in AllowedOrigins :
       call = [returned |-> FALSE, origin |-> o, allowedOrigin |-> a]

CallIsOriginAllowed ==
  /\ ~call.returned
  /\ call' = [returned |-> TRUE, origin |-> call.origin,
              allowedOrigin |-> call.allowedOrigin,
              result |-> isOriginAllowed(call.origin, call.allowedOrigin)]
  /\ UNCHANGED <<options, pc, req, corsOptions, answer, nextArg, res, gate>>

MatchNext == CallIsOriginAllowed

MatchSpec == MatchInit /\ [][MatchNext]_vars

(***************************************************************************)
(* Vocabulary of the properties                                            *)
(***************************************************************************)
IsAbsent(v) == v.type = "undefined"

IsText(v) == v.type = "string"

\* Two texts with the same characters in the same places.
SameText(a, b) ==
  /\ IsText(a) /\ IsText(b)
  /\ Len(a.val) = Len(b.val)
  /\ \A k \in 1..Len(a.val) : a.val[k] = b.val[k]

\* The policy variant a value of the origin option stands for.
Variant(o) ==
  CASE o.type = "function"             -> "Computed"
    [] IsText(o) /\ o.val = <<"*">>    -> "Any"
    [] ~Truthy(o)                      -> "Disabled"
    [] IsText(o)                       -> "Fixed"
    [] o.type = "boolean"              -> "Reflect"
    [] OTHER                           -> "Set"

MiddlewareDone(r) == pc[r] \in {"route", "sent"}

\* The variant in force for request r once the middleware has run: the
\* configured one, or the one the origin function answered with.
Resolved(r) ==
  IF corsOptions[r].origin.type = "function"
  THEN IF Truthy(nextArg[r]) THEN "Failed" ELSE "Disabled"
  ELSE Variant(corsOptions[r].origin)

AllowOrigin(r) == res[r].headers["access-control-allow-origin"]

Varies(r) == ~IsAbsent(res[r].headers["vary"])

Gated(r) == pc[r] = "sent" /\ req[r].route = "/invitation-only"

IsSuccess(status) == status \in 200..299

(***************************************************************************)
(* Properties                                                              *)
(***************************************************************************)

\* C1: the gate of /invitation-only proceeds exactly when the allow-origin
\* value read from the response and the request origin are both absent, or
\* are the same text, or the allow-origin value is "*".
C1_GateContract ==
  \A r \in Requests :
    gate[r].ran =>
      LET o == gate[r].origin
          a == gate[r].allowed
      IN  /\ IsAbsent(o) \/ IsText(o)
          /\ IsAbsent(a) \/ IsText(a)
          /\ gate[r].ok <=> \/ IsAbsent(a) /\ IsAbsent(o)
                            \/ SameText(a, o)
                            \/ IsText(a) /\ a.val = <<"*">>

\* C1 witness: one request went through the gate with no origin and no
\* allow-origin value and proceeded, another with an origin and a different
\* allow-origin text and did not.
C1_Witness ==
  \E r1, r2 \in Requests :
    /\ gate[r1].ran /\ IsAbsent(gate[r1].origin) /\ IsAbsent(gate[r1].allowed)
    /\ gate[r1].ok
    /\ gate[r2].ran /\ IsText(gate[r2].origin) /\ IsText(gate[r2].allowed)
    /\ ~SameText(gate[r2].allowed, gate[r2].origin)
    /\ gate[r2].allowed.val # <<"*">>
    /\ ~gate[r2].ok

C3_ShortCircuit ==
  \A r \in Requests :
    Gated(r) =>
      /\ gate[r].ran
      /\ gate[r].ok => res[r].sent = <<RealMessage>>
      /\ ~gate[r].ok => res[r].sent = <<"">>
      /\ IsSuccess(res[r].statusCode)

\* C3 witness: one gated request was refused and got the empty body, another
\* proceeded and got the real message.
C3_Witness ==
  \E r1, r2 \in Requests :
    /\ Gated(r1) /\ ~gate[r1].ok /\ res[r1].sent = <<"">>
    /\ Gated(r2) /\ gate[r2].ok /\ res[r2].sent = <<RealMessage>>

\* C4: under a Reflect or Set policy the allow-origin value is the request
\* origin when the matcher accepts it and absent when it does not, the vary
\* marker is set in both cases, and neither the boolean false nor the text
\* "false" is ever the allow-origin value.
C4_ReflectOrSet ==
  \A r \in Requests :
    (MiddlewareDone(r) /\ Resolved(r) \in {"Reflect", "Set"}) =>
      LET matched == isOriginAllowed(req[r].origin, corsOptions[r].origin)
      IN  /\ matched => AllowOrigin(r) = req[r].origin
          /\ ~matched => IsAbsent(AllowOrigin(r))
          /\ Varies(r)
          /\ AllowOrigin(r) # Bool(FALSE)
          /\ AllowOrigin(r) # Str(<<"f","a","l","s","e">>)

\* C4 witness: under a Set policy the middleware has handled one request
\* whose origin was refused and one whose origin was echoed.
C4_Witness ==
  \E r1, r2 \in Requests :
    /\ MiddlewareDone(r1) /\ Resolved(r1) = "Set" /\ IsText(req[r1].origin)
    /\ ~isOriginAllowed(req[r1].origin, corsOptions[r1].origin)
    /\ IsAbsent(AllowOrigin(r1)) /\ Varies(r1)
    /\ MiddlewareDone(r2) /\ Resolved(r2) = "Set" /\ IsText(req[r2].origin)
    /\ SameText(AllowOrigin(r2), req[r2].origin)

\* The origins the array of app.js authorizes, among those of the model:
\* those that start with http://localhost: in any letter case, and
\* http://127.0.0.1:3000 written exactly so.
AuthorizedByApp == {OriginLocalhost, OriginLOCALHOST, OriginLoopback}

\* C5: under the array of app.js, a request with an origin that ends in
\* /invitation-only has that origin as allow-origin value and the real
\* message if the origin is authorized, and otherwise no allow-origin value,
\* the vary marker, the empty body and a success status.
C5_ConfiguredPolicy ==
  \A r \in Requests :
    (assign(defaults, options).origin = corsOptionsOrigin
       /\ Gated(r) /\ IsText(req[r].origin)) =>
      IF req[r].origin \in AuthorizedByApp
      THEN /\ SameText(AllowOrigin(r), req[r].origin)
           /\ gate[r].ok
           /\ res[r].sent = <<RealMessage>>
      ELSE /\ IsAbsent(AllowOrigin(r))
           /\ Varies(r)
           /\ ~gate[r].ok
           /\ res[r].sent = <<"">>
           /\ IsSuccess(res[r].statusCode)

\* C5 witness: under the array of app.js, http://127.0.0.1:3000 got the real
\* message and http://192.168.0.11:3000 the empty body.
C5_Witness ==
  \E r1, r2 \in Requests :
    /\ assign(defaults, options).origin = corsOptionsOrigin
    /\ Gated(r1) /\ req[r1].origin = OriginLoopback
    /\ res[r1].sent = <<RealMessage>>
    /\ Gated(r2) /\ req[r2].origin = OriginLan
    /\ res[r2].sent = <<"">>

\* C6: under policy Any the allow-origin value is "*" and the vary marker is
\* not set, for a request with or without origin, and the gate proceeds.
C6_Any ==
  \A r \in Requests :
    (MiddlewareDone(r) /\ Resolved(r) = "Any") =>
      /\ SameText(AllowOrigin(r), Star)
      /\ ~Varies(r)
      /\ gate[r].ran => gate[r].ok /\ res[r].sent = <<RealMessage>>

\* C6 witness: under Any the gate has run for a request without origin and
\* for a request with one.
C6_Witness ==
  \E r1, r2 \in Requests :
    /\ Resolved(r1) = "Any" /\ gate[r1].ran /\ IsAbsent(req[r1].origin)
    /\ Resolved(r2) = "Any" /\ gate[r2].ran /\ IsText(req[r2].origin)

\* C7: under Fixed(s) the allow-origin value is s and the vary marker is set,
\* whatever the request origin.
C7_Fixed ==
  \A r \in Requests :
    (MiddlewareDone(r) /\ Resolved(r) = "Fixed") =>
      /\ SameText(AllowOrigin(r), corsOptions[r].origin)
      /\ Varies(r)

\* C7 witness: under Fixed(s) the middleware has handled a request without
\* origin and a request whose origin is a text other than s.
C7_Witness ==
  \E r1, r2 \in Requests :
    /\ MiddlewareDone(r1) /\ Resolved(r1) = "Fixed" /\ IsAbsent(req[r1].origin)
    /\ MiddlewareDone(r2) /\ Resolved(r2) = "Fixed" /\ IsText(req[r2].origin)
    /\ ~SameText(req[r2].origin, corsOptions[r2].origin)
    /\ SameText(AllowOrigin(r2), corsOptions[r2].origin)

\* C8: under Disabled neither the allow-origin header nor the vary marker is
\* written, the middleware passes no error on, and the route sends its body.
C8_Disabled ==
  \A r \in Requests :
    (MiddlewareDone(r) /\ Resolved(r) = "Disabled") =>
      /\ IsAbsent(AllowOrigin(r))
      /\ ~Varies(r)
      /\ ~Truthy(nextArg[r])
      /\ pc[r] = "sent" => Len(res[r].sent) = 1
      /\ (pc[r] = "sent" /\ req[r].route = "/") => res[r].sent = <<ConnectedMessage>>

\* C8 witness: with origin: false configured, a request that carries an
\* origin was answered by the route / with no header written.
C8_Witness ==
  \E r \in Requests :
    /\ options = [configured |-> TRUE, origin |-> Bool(FALSE)]
    /\ pc[r] = "sent" /\ req[r].route = "/" /\ IsText(req[r].origin)
    /\ res[r].sent = <<ConnectedMessage>>
    /\ res[r].headers = NoHeaders

\* One matcher of an array against an origin: a string by its characters, a
\* pattern by its test.
ElementMatches(origin, matcher) ==
  IF IsText(matcher)
  THEN SameText(origin, matcher)
  ELSE RegExpTest(matcher, origin)

\* The rearrangements of a sequence.
Reorderings(items) ==
  LET n == Len(items)
  IN  { [i \in 1..n |-> items[q[i]]] :
          q \in {f \in [1..n -> 1..n] : \A i, j \in 1..n : f[i] = f[j] => i = j} }

\* C9: for an array of matchers isOriginAllowed returns true exactly when at
\* least one of them matches the origin, false for the empty array, and the
\* same for every reordering of the array.
C9_SetMatcher ==
  (call.returned /\ call.allowedOrigin.type = "array") =>
    LET items == call.allowedOrigin.items
    IN  /\ call.result <=>
             \E i \in 1..Len(items) : ElementMatches(call.origin, items[i])
        /\ items = <<>> => ~call.result
        /\ \A q \in Reorderings(items) :
             isOriginAllowed(call.origin, Array(q)) = call.result

\* C9 witness: a call returned true for an array whose first matcher does not
\* match the origin and whose last one does.
C9_Witness ==
  /\ call.returned /\ call.allowedOrigin.type = "array"
  /\ Len(call.allowedOrigin.items) >= 2
  /\ ~ElementMatches(call.origin, call.allowedOrigin.items[1])
  /\ ElementMatches(call.origin,
                    call.allowedOrigin.items[Len(call.allowedOrigin.items)])
  /\ call.result

OnlyLiterals(items) == \A i \in 1..Len(items) : IsText(items[i])

IsUpperCase(c) == \E k \in 1..26 : UpperCaseLetters[k] = c

IsLowerCase(c) == \E k \in 1..26 : LowerCaseLetters[k] = c

\* The lower-case letter of an upper-case one, other characters unchanged.
LowerOf(c) ==
  IF IsUpperCase(c)
  THEN LowerCaseLetters[CHOOSE k \in 1..26 : UpperCaseLetters[k] = c]
  ELSE c

\* The characters of a text with every letter in lower case.
Lowered(chars) == [k \in 1..Len(chars) |-> LowerOf(chars[k])]

\* chars begins with prefix.
StartsWith(chars, prefix) ==
  /\ Len(prefix) <= Len(chars)
  /\ \A k \in 1..Len(prefix) : chars[k] = prefix[k]

\* C11: an anchored pattern with the i flag matches a text origin exactly
\* when the origin begins with the pattern once both are put in lower case,
\* so it matches http://localhost:3000 and http://LOCALHOST:3000 alike; a
\* pattern without the flag whose letters are all upper case never matches
\* an origin without upper-case letters.
C11_PatternCaseFlag ==
  (call.returned /\ call.allowedOrigin.type = "regexp" /\ IsText(call.origin)) =>
    LET re == call.allowedOrigin
    IN  /\ (re.ignoreCase /\ re.anchored) =>
              (call.result <=>
                 StartsWith(Lowered(call.origin.val), Lowered(re.source)))
        /\ (re = LocalhostPattern
               /\ call.origin \in {OriginLocalhost, OriginLOCALHOST})
              => call.result
        /\ (/\ ~re.ignoreCase
            /\ \E k \in 1..Len(re.source) : IsUpperCase(re.source[k])
            /\ \A k \in 1..Len(re.source) : ~IsLowerCase(re.source[k])
            /\ \A k \in 1..Len(call.origin.val) : ~IsUpperCase(call.origin.val[k]))
              => ~call.result

\* C11 witness: the upper-case pattern without the i flag was tested against
\* http://localhost:3000 and did not match.
C11_Witness ==
  /\ call.returned
  /\ call.allowedOrigin = LocalhostPatternCaseSensitive
  /\ call.origin = OriginLocalhost
  /\ ~call.result

\* C12 as stated: for the policy true, isOriginAllowed returns true exactly
\* when the origin is present.
C12_AsStated ==
  (call.returned /\ call.allowedOrigin = Bool(TRUE)) =>
    (call.result <=> ~IsAbsent(call.origin))

\* C12 amended: for the policy true, isOriginAllowed returns true for every
\* origin, an absent one included.
C12_Reflect ==
  (call.returned /\ call.allowedOrigin = Bool(TRUE)) => call.result

\* C12 witness: the policy true was asked about an absent origin and
\* answered true.
C12_Witness ==
  /\ call.returned
  /\ call.allowedOrigin = Bool(TRUE)
  /\ IsAbsent(call.origin)
  /\ call.result

\* The origin function of request r has answered without an error.
Succeeded(r) == answer[r].given /\ ~Truthy(answer[r].err)

\* The origin function of request r has answered with an error.
Failed(r) == answer[r].given /\ Truthy(answer[r].err)

\* A matcher or an array of matchers has an element matching the origin.
SetMatches(origin, value) ==
  IF value.type = "array"
  THEN \E i \in 1..Len(value.items) : ElementMatches(origin, value.items[i])
  ELSE ElementMatches(origin, value)

\* The allow-origin value and the vary mark a policy variant gives a request.
Decision(variant, value, origin) ==
  CASE variant = "Any"      -> [allow |-> Star, varies |-> FALSE]
    [] variant = "Disabled" -> [allow |-> Undefined, varies |-> FALSE]
    [] variant = "Fixed"    -> [allow |-> value, varies |-> TRUE]
    [] variant = "Reflect"  -> [allow |-> origin, varies |-> TRUE]
    [] variant = "Set"      ->
         [allow |-> IF SetMatches(origin, value) THEN origin ELSE Undefined,
          varies |-> TRUE]

\* The response of request r carries exactly the headers of a decision.
CarriesDecision(r, d) ==
  /\ AllowOrigin(r) = d.allow
  /\ Varies(r) <=> d.varies
  /\ Varies(r) => res[r].headers["vary"] = VaryOrigin

\* The variant of a returned value when every string stands for Fixed.
VariantAsStated(v) ==
  CASE v.type = "boolean" /\ v.flag -> "Reflect"
    [] ~Truthy(v)                    -> "Disabled"
    [] IsText(v)                     -> "Fixed"
    [] OTHER                         -> "Set"

\* C13 as stated: when the origin function succeeds, true resolves to
\* Reflect, a false, absent or empty value to Disabled, every string to Fixed
\* of that string, a pattern or array to Set, and the response carries the
\* headers of that variant.
C13_AsStated ==
  \A r \in Requests :
    (Succeeded(r) /\ MiddlewareDone(r)) =>
      CarriesDecision(r, Decision(VariantAsStated(answer[r].origin),
                                  answer[r].origin, req[r].origin))

\* C13 amended: as stated, except that the returned string "*" resolves to
\* Any, whose allow-origin value is "*" without the vary mark.
C13_Resolution ==
  \A r \in Requests :
    (Succeeded(r) /\ MiddlewareDone(r)) =>
      /\ Resolved(r) = Variant(answer[r].origin)
      /\ Resolved(r) \in {"Any", "Disabled", "Fixed", "Reflect", "Set"}
      /\ answer[r].origin = Star => Resolved(r) = "Any"
      /\ (IsText(answer[r].origin) /\ Truthy(answer[r].origin)
            /\ answer[r].origin # Star) => Resolved(r) = "Fixed"
      /\ answer[r].origin = Bool(TRUE) => Resolved(r) = "Reflect"
      /\ ~Truthy(answer[r].origin) => Resolved(r) = "Disabled"
      /\ answer[r].origin.type \in {"regexp", "array"} => Resolved(r) = "Set"
      /\ CarriesDecision(r, Decision(Resolved(r), answer[r].origin, req[r].origin))

\* C13 witness: the origin function answered "*" for one request, whose
\* response carries "*" and no vary mark, and a string other than "*" for
\* another with a different origin, whose response carries that string.
C13_Witness ==
  \E r1, r2 \in Requests :
    /\ Succeeded(r1) /\ MiddlewareDone(r1) /\ answer[r1].origin = Star
    /\ AllowOrigin(r1) = Star /\ ~Varies(r1)
    /\ Succeeded(r2) /\ MiddlewareDone(r2) /\ answer[r2].origin = OriginLoopback
    /\ req[r2].origin = OriginLan
    /\ AllowOrigin(r2) = OriginLoopback /\ Varies(r2)

WorksOnOwnCopy(r) ==
  corsOptions[r].origin =
    IF answer[r].given /\ ~OriginRejected(answer[r].err, answer[r].origin)
    THEN answer[r].origin
    ELSE assign(defaults, options).origin

Handling(r) ==
  <<pc[r], req[r], corsOptions[r], answer[r], nextArg[r], res[r], gate[r]>>

\* Request r has been answered by a route or handed to next with an error.
Finished(r) == pc[r] \in {"sent", "error"}

LeftMiddleware(r) == pc[r] \in {"route", "sent", "error"}

\* What the ungated routes send.
FullBody(route) == IF route = "/" THEN ConnectedMessage ELSE HeadersMessage

C20_HeadersBeforeHandler ==
  /\ [](\A r \in Requests :
          /\ MiddlewareDone(r) =>
               /\ newCorsOptions.origin = Function => answer[r].given
               /\ Resolved(r) \in {"Any", "Fixed"} => IsText(AllowOrigin(r))
               /\ Resolved(r) \in {"Fixed", "Reflect", "Set"} <=> Varies(r)
               /\ Resolved(r) = "Disabled" => res[r].headers = NoHeaders
               /\ Resolved(r) # "Failed"
          /\ ~MiddlewareDone(r) => res[r].sent = <<>> /\ ~gate[r].ran
          /\ gate[r].ran =>
               /\ pc[r] = "sent"
               /\ gate[r].allowed = AllowOrigin(r))
  /\ [][\A r \in Requests :
          MiddlewareDone(r) => res[r].headers' = res[r].headers]_vars

\* C20 witness: under a configured function that answered true, a request
\* with an origin went through the gate, which read that origin from the
\* allow-origin header.
C20_Witness ==
  \E r \in Requests :
    /\ options = [configured |-> TRUE, origin |-> Function]
    /\ Succeeded(r) /\ answer[r].origin = Bool(TRUE)
    /\ IsText(req[r].origin)
    /\ gate[r].ran /\ gate[r].allowed = req[r].origin /\ gate[r].ok

HeaderStageRan(r) == res[r].headers # NoHeaders

Pushed(headers, name) ==
  {headers[i].value : i \in {j \in 1..Len(headers) : HeaderName(headers[j].key) = name}}

\* A list of headers holds each key at most once.
PushedOnce(headers) ==
  \A i, j \in 1..Len(headers) : headers[i].key = headers[j].key => i = j

\* A step has changed a response header of request r.
HeadersWritten(r) == res'[r].headers # res[r].headers

\* C23: a step that changes a response header of a request is a step of the
\* middleware for that request, it writes only headers that were absent, and
\* the values it writes are those configureOrigin pushed, each name pushed
\* once; the routes leave the headers as they are, so the allow-origin value
\* on the response that was sent is the one the gate has read.
C23_WriteOnce ==
  /\ [][\A r \in Requests :
          HeadersWritten(r) =>
            /\ pc[r] \in {"cors", "callback"}
            /\ pc'[r] = "route"
            /\ res[r].headers = NoHeaders
            /\ LET headers == configureOrigin(corsOptions'[r].origin, req[r].origin)
               IN  /\ PushedOnce(headers)
                   /\ \A name \in HeaderNames :
                        \/ res'[r].headers[name] \in Pushed(headers, name)
                        \/ IsAbsent(res'[r].headers[name])]_vars
  /\ [][\A r \in Requests :
          pc[r] \in {"route", "sent", "error"} => ~HeadersWritten(r)]_vars
  /\ [](\A r \in Requests :
          gate[r].ran =>
            /\ pc[r] = "sent"
            /\ gate[r].allowed = res[r].headers["access-control-allow-origin"])

\* C23 witness: under a fixed string, a request from another origin was
\* answered by /invitation-only with the empty body, and the response still
\* carries the fixed string the gate has read, and the vary mark.
C23_Witness ==
  \E r \in Requests :
    /\ Gated(r) /\ gate[r].ran /\ ~gate[r].ok
    /\ req[r].origin = OriginLOOPBACK
    /\ gate[r].allowed = OriginLoopback
    /\ AllowOrigin(r) = OriginLoopback /\ Varies(r)
    /\ res[r].sent = <<"">>

\* What the matcher says of an origin under a resolved policy: Any matches
\* every origin, Disabled none, and a fixed string, true, a pattern or an
\* array are asked through isOriginAllowed.
Matches(origin, variant, value) ==
  CASE variant = "Any"      -> TRUE
    [] variant = "Disabled" -> FALSE
    [] OTHER                -> isOriginAllowed(origin, value)

\* C24: for a request that carries an origin, under each resolved policy,
\* the gate proceeds exactly when the matcher says the origin matches the
\* policy.
C24_GateAgreesWithMatcher ==
  \A r \in Requests :
    (gate[r].ran /\ IsText(gate[r].origin)) =>
      /\ Resolved(r) \in {"Any", "Disabled", "Fixed", "Reflect", "Set"}
      /\ gate[r].ok <=>
           Matches(gate[r].origin, Resolved(r), corsOptions[r].origin)
      /\ res[r].sent = <<message(Matches(gate[r].origin, Resolved(r),
                                         corsOptions[r].origin))>>

\* C24 witness: under the policy of app.js the gate refused
\* http://192.168.0.11:3000, which no matcher of the array accepts, and let
\* http://127.0.0.1:3000 through, which the second one accepts.
C24_Witness ==
  \E r1, r2 \in Requests :
    /\ options = [configured |-> TRUE, origin |-> corsOptionsOrigin]
    /\ gate[r1].ran /\ gate[r1].origin = OriginLan /\ ~gate[r1].ok
    /\ ~isOriginAllowed(OriginLan, corsOptionsOrigin)
    /\ gate[r2].ran /\ gate[r2].origin = OriginLoopback /\ gate[r2].ok
    /\ isOriginAllowed(OriginLoopback, corsOptionsOrigin)

\* C25: for a request without origin under a Reflect or Set policy, the
\* response carries no allow-origin value, also when the matcher accepts the
\* absent origin, and the gate reads (absent, absent) and proceeds.
C25_AbsentOriginNotEchoed ==
  \A r \in Requests :
    (MiddlewareDone(r) /\ IsAbsent(req[r].origin)
       /\ Resolved(r) \in {"Reflect", "Set"}) =>
      /\ IsAbsent(AllowOrigin(r))
      /\ gate[r].ran =>
           /\ IsAbsent(gate[r].origin)
           /\ IsAbsent(gate[r].allowed)
           /\ gate[r].ok

\* C25 witness: requests without origin went through the gate under the
\* policy true and under a pattern that accepts the text "undefined"; the
\* matcher accepts the absent origin under both, and no allow-origin value
\* was written.
C25_Witness ==
  \E r1, r2 \in Requests :
    /\ gate[r1].ran /\ IsAbsent(req[r1].origin)
    /\ corsOptions[r1].origin = Bool(TRUE)
    /\ isOriginAllowed(req[r1].origin, corsOptions[r1].origin)
    /\ IsAbsent(gate[r1].allowed)
    /\ gate[r2].ran /\ IsAbsent(req[r2].origin)
    /\ corsOptions[r2].origin = EmptyPattern
    /\ isOriginAllowed(req[r2].origin, corsOptions[r2].origin)
    /\ IsAbsent(gate[r2].allowed)

\* C26: once the middleware has passed a request on, a response whose
\* allow-origin value is a text other than "*" carries Vary: Origin, and the
\* vary mark is absent exactly when the resolved policy is Any or Disabled.
C26_CacheVariance ==
  \A r \in Requests :
    MiddlewareDone(r) =>
      /\ (IsText(AllowOrigin(r)) /\ AllowOrigin(r) # Star) =>
           res[r].headers["vary"] = VaryOrigin
      /\ ~Varies(r) <=> Resolved(r) \in {"Any", "Disabled"}

\* C26 witness: of two responses that were sent, one carries a fixed string
\* and the vary mark, the other carries "*" and no vary mark.
C26_Witness ==
  \E r1, r2 \in Requests :
    /\ pc[r1] = "sent" /\ Resolved(r1) = "Fixed"
    /\ AllowOrigin(r1) = OriginLoopback /\ Varies(r1)
    /\ pc[r2] = "sent" /\ Resolved(r2) = "Any"
    /\ AllowOrigin(r2) = Star /\ ~Varies(r2)

\* The options are those of app.js.
AppPolicy == options = [configured |-> TRUE, origin |-> corsOptionsOrigin]

\* C27: under the policy of app.js every request that was received is
\* eventually answered by its route, whether its origin matches, does not
\* match or is absent; it never ends with an error or waits for an origin
\* function, what was sent is one body, on /invitation-only the real message
\* or the empty one, and nothing is sent after it.
C27_OneResponse ==
  /\ \A r \in Requests :
       (AppPolicy /\ pc[r] = "cors") ~> (pc[r] = "sent" /\ Len(res[r].sent) = 1)
  /\ [](\A r \in Requests :
          AppPolicy =>
            /\ pc[r] \in {"idle", "cors", "route", "sent"}
            /\ Len(res[r].sent) = IF pc[r] = "sent" THEN 1 ELSE 0
            /\ Gated(r) =>
                 res[r].sent = IF gate[r].ok THEN <<RealMessage>> ELSE <<"">>)
  /\ [][\A r \in Requests : pc[r] = "sent" => res[r]' = res[r]]_vars

\* C27 witness: under the policy of app.js, /invitation-only has answered a
\* request whose origin matches no matcher with the one empty body and a
\* request without origin with the one real message.
C27_Witness ==
  \E r1, r2 \in Requests :
    /\ AppPolicy
    /\ Gated(r1) /\ req[r1].origin = OriginLan /\ ~gate[r1].ok
    /\ res[r1].sent = <<"">>
    /\ Gated(r2) /\ IsAbsent(req[r2].origin) /\ gate[r2].ok
    /\ res[r2].sent = <<RealMessage>>

====
